---- MODULE Spec2Model ----
(***************************************************************************)
(* fhcleanup (src/src/main.rs): removal of Windows file-history duplicates. *)
(* A thread pool runs one handle_dir unit per directory; every unit lists   *)
(* its directory, groups the files that carry a "(... UTC)." marker by      *)
(* their trimmed name, and renames, moves or deletes them.                  *)
(*                                                                         *)
(* A file name is a sequence of tokens.  A marker token stands for the      *)
(* text "(YYYY_MM_DD HH_MM_SS UTC)." (marker and the dot after it), " " is  *)
(* a blank, "." a dot, every other token is text without blanks or dots.    *)
(* A path is a sequence of components; "." is the current directory.        *)
(***************************************************************************)
EXTENDS Naturals, Integers, Sequences, FiniteSets, TLC

(* ------------------------------ bounds --------------------------------- *)

\* number of distinct timestamps that occur in marker tokens
MaxTs == 2

\* largest worker cap (--max-threads) tried
MaxThreads == 2

\* number of filesystem calls that may fail in one run
MaxFaults == 1

\* largest number of files in the root directory at the start
MaxRootFiles == 2

(* ------------------------------ names ---------------------------------- *)

\* marker texts, ordered by the date they carry
MarkerTok ==
  << "(2023_01_01 10_00_00 UTC).", "(2023_01_02 10_00_00 UTC).",
     "(2023_01_03 10_00_00 UTC).", "(2023_01_04 10_00_00 UTC)." >>

IsMarker(tok) == \E t \in 1..Len(MarkerTok) : MarkerTok[t] = tok

\* NaiveDateTime::parse_from_str of the date inside a marker
ParseDate(tok) == CHOOSE t \in 1..Len(MarkerTok) : MarkerTok[t] = tok

\* "report (<t>).txt"
Stamped(stem, t) == << stem, " ", MarkerTok[t], "txt" >>

\* "report(<t>).txt": no blank before the marker
Glued(stem, t) == << stem, MarkerTok[t], "txt" >>

\* "report.txt"
Plain(stem) == << stem, ".", "txt" >>

\* "report (<t>).txt (<u>).bak": a stamped name that was stamped again
Restamped(stem, t, u) == << stem, " ", MarkerTok[t], "txt", " ", MarkerTok[u], "bak" >>

\* a fragment of an OsString that is not valid UTF-8
InvalidTok == "<FF>"

(* ------------------------- regular expressions ------------------------- *)

\* positions of the marker tokens of a name
MarkerPos(name) == { i \in 1..Len(name) : IsMarker(name[i]) }

Min(S) == CHOOSE x \in S : \A y \in S : x <= y

Max(S) == CHOOSE x \in S : \A y \in S : x >= y

\* FILE_NAME_REGEX.find_iter: the matches, left to right and not overlapping.
\* A match starts at a marker and its ".*" runs to the end of the name, so the
\* search for a further match starts at the end of the name.
RECURSIVE FileNameFindIter(_, _)
FileNameFindIter(name, from) ==
  LET ps == { i \in MarkerPos(name) : i >= from }
  IN IF ps = {} THEN << >>
     ELSE << SubSeq(name, Min(ps), Len(name)) >>
            \o FileNameFindIter(name, Len(name) + 1)

\* FILE_NAME_REGEX.is_match
FileNameIsMatch(name) == MarkerPos(name) # {}

\* DATE_PART_REGEX.find: the first date of a text
DatePartFind(text) == text[Min(MarkerPos(text))]

\* str::trim on a fragment: blanks off both ends
RECURSIVE Trim(_)
Trim(part) ==
  IF part = << >> THEN << >>
  ELSE IF Head(part) = " " THEN Trim(Tail(part))
  ELSE IF part[Len(part)] = " " THEN Trim(SubSeq(part, 1, Len(part) - 1))
  ELSE part

\* FILE_END_REGEX.split: the fragments between the markers
RECURSIVE FileEndSplit(_)
FileEndSplit(name) ==
  IF MarkerPos(name) = {} THEN << name >>
  ELSE LET p == Min(MarkerPos(name))
       IN << SubSeq(name, 1, p - 1) >> \o FileEndSplit(SubSeq(name, p + 1, Len(name)))

RECURSIVE Fold(_)
Fold(parts) == IF parts = << >> THEN << >> ELSE Trim(Head(parts)) \o Fold(Tail(parts))

\* handle_file: the date recorded for a matching name
DateOf(name) ==
  LET found == FileNameFindIter(name, 1)
      date_str == found[Len(found)]
  IN ParseDate(DatePartFind(date_str))

\* handle_file: the trimmed name the file is grouped under
TrimmedName(name) ==
  LET parts == FileEndSplit(name)
      extension == parts[Len(parts)]
  IN Fold(SubSeq(parts, 1, Len(parts) - 1)) \o << "." >> \o extension

(* ------------------------------- paths --------------------------------- *)

\* "./", the current_path of the root unit
RootPath == << "." >>

\* "./fhcleanup_to_del/", the holding directory when --target-folder is absent
DefaultTempDir == << ".", "fhcleanup_to_del" >>

\* the directory a path string names: "." components resolve to nothing
Norm(p) == SelectSeq(p, LAMBDA c : c # ".")

\* a directory and the directories above it (below the working directory)
Prefixes(d) == { SubSeq(d, 1, n) : n \in 0..Len(d) }

\* Option<T> is a sequence of length 0 (None) or 1 (Some)
None == << >>

Some(x) == << x >>

\* handle_dir: path.clone().unwrap_or_else(|| String::from("./"))
CurrentPath(path) == IF path = None THEN RootPath ELSE path[1]

\* FHFile::mov: self.dir_path.as_deref().unwrap_or("")
DirPathOrEmpty(path) == IF path = None THEN << >> ELSE path[1]

(* ------------------------------- state --------------------------------- *)

VARIABLES
  opt,            \* the parsed Opt, shared read-only
  files0,         \* the files at the start of the run
  dirs,           \* the directories that exist (resolved paths)
  files,          \* <<directory, name>> -> the content (named by where it was at the start)
  queue,          \* tasks handed to the pool and not yet taken by a worker
  units,          \* path -> the handle_dir unit a worker is running
  MOVED_COUNT,
  DELETED_COUNT,
  RENAMED_COUNT,
  mainpc,         \* where main is
  summary,        \* the counts main loaded for the summary
  faults,         \* filesystem calls that failed so far
  fsops,          \* how many renames, moves and deletes the filesystem carried out
  late,           \* a filesystem change or an increment happened after join returned
  executed,       \* path -> how many tasks pool.execute was given for it
  unopened,       \* the paths whose fs::read_dir failed
  errs            \* the errors met so far: "create_dir" (fs::create_dir_all failed),
                  \* "encoding" (a name was not valid UTF-8)
\* A unit also records, for the group it is resolving, whether the trimmed name
\* existed when the group was begun (existed) and the calls made so far (acts).

vars == << opt, files0, dirs, files, queue, units, MOVED_COUNT, DELETED_COUNT, RENAMED_COUNT,
           mainpc, summary, faults, fsops, late, executed, unopened, errs >>

(* ----------------------------- filesystem ------------------------------ *)

\* names of the files of a directory
FilesIn(d) == { k[2] : k \in { k \in DOMAIN files : k[1] = d } }

\* names of the directories of a directory
SubdirsIn(d) ==
  { p[Len(p)] : p \in { p \in dirs : Len(p) = Len(d) + 1 /\ SubSeq(p, 1, Len(d)) = d } }

\* Path::exists
PathExists(dir, name) == << Norm(dir), name >> \in DOMAIN files

\* fs::rename when it succeeds: the target is replaced when it exists
FsRename(src, dst) ==
  [ k \in (DOMAIN files \ {src}) \cup {dst} |-> IF k = dst THEN files[src] ELSE files[k] ]

\* fs::remove_file when it succeeds
FsRemove(src) == [ k \in DOMAIN files \ {src} |-> files[k] ]

\* fs::create_dir_all when it succeeds
FsCreateDirAll(d) == dirs \cup Prefixes(Norm(d))

(* ------------------------------- pool ---------------------------------- *)

\* a join that looks at the queue only and not at the workers
PoolIsIdle_QueueOnly == queue = << >>

\* ThreadPool::join returns when no task is queued and no worker is running one
PoolIsIdle == queue = << >> /\ DOMAIN units = {}

\* ThreadPool::execute: the task goes to the pool
PoolExecute(path) == Append(queue, path)

\* one more task was handed to the pool for a path
Counted(count, path) ==
  IF path \in DOMAIN count THEN [ count EXCEPT ![path] = @ + 1 ] ELSE (path :> 1) @@ count

\* the state of a unit whose directory has just been opened
NewUnit ==
  [ phase |-> "list", todo_d |-> {}, seen_f |-> {}, seen_d |-> {},
    fh_files_map |-> << >>, trimmed_name |-> << >>, should_rename |-> FALSE,
    file_duplicates |-> << >>, i |-> 0, existed |-> FALSE, acts |-> << >> ]

\* a function without one of its arguments
Without(f, k) == IF DOMAIN f \ {k} = {} THEN << >> ELSE [ x \in DOMAIN f \ {k} |-> f[x] ]

(* --------------------------- classification ---------------------------- *)

\* a walk that follows directories whether or not --incl-subdir is given
FollowsDir_Always(is_dir) == is_dir

\* handle_dir_elem: a directory entry is handed to the pool as a unit of its own
FollowsDir(is_dir) == opt.incl_subdir /\ is_dir

\* a record that loses the directory it was found in
NewFHFile_NoDir(file_name, path) ==
  [ date |-> DateOf(file_name), dir_path |-> None, full_name |-> file_name ]

\* handle_file: the record of a matching file
NewFHFile(file_name, path) ==
  [ date |-> DateOf(file_name), dir_path |-> path, full_name |-> file_name ]

\* put_multi_map
PutMultiMap(map, key, elem) ==
  IF key \in DOMAIN map
  THEN [ map EXCEPT ![key] = Append(@, elem) ]
  ELSE (key :> << elem >>) @@ map

\* a conversion that keeps a name that is not valid UTF-8 (to_string_lossy)
ToStr_Lossy(os_name) == Some(os_name)

\* OsStr::to_str: None when the name is not valid UTF-8
ToStr(os_name) ==
  IF \E i \in 1..Len(os_name) : os_name[i] = InvalidTok THEN None ELSE Some(os_name)

\* handle_file: a name that is not valid UTF-8 is reported and left alone, a
\* name without a marker is irrelevant
HandleFile(map, os_name, path) ==
  LET file_name == ToStr(os_name)
  IN IF file_name # None /\ FileNameIsMatch(file_name[1])
     THEN PutMultiMap(map, TrimmedName(file_name[1]), NewFHFile(file_name[1], path))
     ELSE map

\* a child path that leaves out the path of the parent
ChildPath_Flat(current_path, os_name) == Some(RootPath \o << os_name >>)

\* handle_dir_elem: the path the submitted closure hands to handle_dir
ChildPath(current_path, os_name) == Some(current_path \o << os_name >>)

\* handle_dir_elem: the closure panics at to_str().unwrap_or_else(..) when the
\* name of its directory is not valid UTF-8, before handle_dir is called
ClosurePanics(path) == path # None /\ ToStr(path[1]) = None

(* ------------------------------ resolution ----------------------------- *)

\* a resolution that does not look for a file of the trimmed name
ShouldRename_Unchecked(current_path, trimmed_name) == TRUE

\* handle_results: should_rename, from Path::new(&trimmed_path).exists()
ShouldRename(current_path, trimmed_name) == ~PathExists(current_path, trimmed_name)

\* the place of x in a sequence sorted by date: after every record that is not newer
RECURSIVE InsertByDate(_, _)
InsertByDate(sorted, x) ==
  IF sorted = << >> THEN << x >>
  ELSE IF sorted[Len(sorted)].date <= x.date THEN Append(sorted, x)
  ELSE Append(InsertByDate(SubSeq(sorted, 1, Len(sorted) - 1), x), sorted[Len(sorted)])

\* a group left in the order of the listing
SortByKey_Unsorted(s) == s

\* file_duplicates.sort_by_key(|f| f.date): stable, ascending
RECURSIVE SortByKey(_)
SortByKey(s) ==
  IF s = << >> THEN << >>
  ELSE InsertByDate(SortByKey(SubSeq(s, 1, Len(s) - 1)), s[Len(s)])

\* the last record is renamed although a file of the trimmed name exists
ActionFor_IgnoresExists(i, file_count, should_rename) ==
  IF ~opt.keep_names /\ i = file_count - 1 THEN "rename"
  ELSE IF opt.purge THEN "delete" ELSE "mov"

\* with keep-names the last record is disposed of like the others
ActionFor_DisposesNewest(i, file_count, should_rename) ==
  IF should_rename /\ ~opt.keep_names /\ i = file_count - 1 THEN "rename"
  ELSE IF opt.purge THEN "delete" ELSE "mov"

\* the last record is renamed whatever keep-names says
ActionFor_IgnoresKeepNames(i, file_count, should_rename) ==
  IF should_rename /\ i = file_count - 1 THEN "rename"
  ELSE IF opt.purge THEN "delete" ELSE "mov"

\* purge and move exchanged
ActionFor_PurgeInverted(i, file_count, should_rename) ==
  IF should_rename /\ ~opt.keep_names /\ i = file_count - 1 THEN "rename"
  ELSE IF ~should_rename \/ i < file_count - 1
       THEN IF opt.purge THEN "mov" ELSE "delete"
       ELSE "none"

\* handle_results: what the loop does with the record at index i (from 0)
ActionFor(i, file_count, should_rename) ==
  IF should_rename /\ ~opt.keep_names /\ i = file_count - 1 THEN "rename"
  ELSE IF ~should_rename \/ i < file_count - 1
       THEN IF opt.purge THEN "delete" ELSE "mov"
       ELSE "none"

\* handle_results: temp_dir
TempDir == IF opt.target_folder # None THEN opt.target_folder[1] ELSE DefaultTempDir

\* FHFile: source_name
SourceOf(file) == << Norm(CurrentPath(file.dir_path)), file.full_name >>

\* FHFile::mov: target_dir
TargetDir(file) == TempDir \o DirPathOrEmpty(file.dir_path)

\* an increment made before the outcome of the call is known
Tally_BeforeCall(count, ok) == count + 1

\* fetch_add(1) in the success branch of an operation
Tally(count, ok) == IF ok THEN count + 1 ELSE count

(* ---------------------------- initial state ---------------------------- *)

\* names a file of the root directory may have at the start
RootNames ==
  { Stamped("report", t) : t \in 1..MaxTs }
    \cup { Glued("report", 1), Plain("report"), Stamped("notes", 1) }

\* the files of the root directory at the start
RootSets == { S \in SUBSET RootNames : Cardinality(S) <= MaxRootFiles }

\* the files of the subdirectory ./a/ at the start
SubSets ==
  { { Stamped("report", 1), Stamped("report", 2) },
    { Plain("report"), Stamped("report", 1) } }

\* the worker caps tried: one worker, and the most
ThreadCaps == { 1, MaxThreads }

SubDir == << "a" >>

\* --target-folder: absent, or "a/", the subdirectory that exists already
TargetFolders == { None, Some(SubDir) }

\* the files at the start: every file holds its own content
InitialFiles(root, sub) ==
  LET keys == { << << >>, n >> : n \in root } \cup { << SubDir, n >> : n \in sub }
  IN IF keys = {} THEN << >> ELSE [ k \in keys |-> k ]

\* the values Opt::from_args can give
Opts ==
  [ incl_subdir : BOOLEAN, max_threads : ThreadCaps, target_folder : TargetFolders,
    purge : BOOLEAN, keep_names : BOOLEAN ]

\* main before pool.execute, in a working directory with the files fs and the
\* directories ds
Started(fs, ds) ==
  /\ opt \in Opts
  /\ files = fs
  /\ files0 = fs
  /\ dirs = ds
  /\ queue = << >>
  /\ units = << >>
  /\ MOVED_COUNT = 0
  /\ DELETED_COUNT = 0
  /\ RENAMED_COUNT = 0
  /\ mainpc = "execute"
  /\ summary = [ moved |-> 0, deleted |-> 0, renamed |-> 0 ]
  /\ faults = 0
  /\ fsops = [ moved |-> 0, deleted |-> 0, renamed |-> 0 ]
  /\ late = FALSE
  /\ executed = << >>
  /\ unopened = {}
  /\ errs = {}

Init == \E root \in RootSets, sub \in SubSets : Started(InitialFiles(root, sub), { << >>, SubDir })

\* "<FF> (<1>).txt": a stamped name that is not valid UTF-8
BadStamped == << InvalidTok, " ", MarkerTok[1], "txt" >>

\* a directory whose name is not valid UTF-8
BadDir == << InvalidTok >>

\* the files of a root directory with unusual names: the file of the invalid
\* name alone or beside a stamped file, or two names stamped twice with the
\* same two dates in the two orders
OddRootSets ==
  { { BadStamped } }
    \cup { { BadStamped, Stamped("report", t) } : t \in 1..MaxTs }
    \cup { { Restamped("report", t, u), Restamped("report", u, t) } :
             t \in 1..MaxTs, u \in 2..MaxTs }

\* a working directory with unusual names: the root holds some of OddNames, ./a/
\* a pair of stamped files, and the directory of the invalid name one stamped file
InitNames ==
  \E root \in OddRootSets :
    Started(InitialFiles(root, { Stamped("report", 1), Stamped("report", 2) })
              @@ (<< BadDir, Stamped("report", 1) >> :> << BadDir, Stamped("report", 1) >>),
            { << >>, SubDir, BadDir })

(* -------------------------------- main --------------------------------- *)

\* main: pool.execute(|| handle_dir(None, opt, cloned_pool))
MainExecute ==
  /\ mainpc = "execute"
  /\ queue' = PoolExecute(None)
  /\ executed' = Counted(executed, None)
  /\ mainpc' = "join"
  /\ UNCHANGED << opt, files0, unopened, dirs, files, units, MOVED_COUNT, DELETED_COUNT, RENAMED_COUNT,
                  summary, faults, fsops, late, errs >>

\* main: pool.join() returns
Join ==
  /\ mainpc = "join"
  /\ PoolIsIdle
  /\ mainpc' = "summary"
  /\ UNCHANGED << opt, files0, unopened, dirs, files, queue, units, MOVED_COUNT, DELETED_COUNT,
                  RENAMED_COUNT, summary, faults, fsops, late, executed, errs >>

\* main: the three counters are loaded for the summary
Summary ==
  /\ mainpc = "summary"
  /\ summary' = [ moved |-> MOVED_COUNT, deleted |-> DELETED_COUNT,
                  renamed |-> RENAMED_COUNT ]
  /\ mainpc' = "done"
  /\ UNCHANGED << opt, files0, unopened, dirs, files, queue, units, MOVED_COUNT, DELETED_COUNT,
                  RENAMED_COUNT, faults, fsops, late, executed, errs >>

(* ------------------------------- units --------------------------------- *)

\* a filesystem call may fail while the run has failures left
MayFail == faults < MaxFaults

\* a pool whose worker stays taken by every task it was ever handed
FreeWorkers_NeverReleased == opt.max_threads - Cardinality(DOMAIN executed)

\* workers that run no unit
FreeWorkers == opt.max_threads - Cardinality(DOMAIN units)

\* a queue without its n-th task
Remove(q, n) == SubSeq(q, 1, n - 1) \o SubSeq(q, n + 1, Len(q))

\* the orders in which a listing can return a set of names
Orders(S) ==
  { s \in [ 1..Cardinality(S) -> S ] : \A i, j \in 1..Cardinality(S) : s[i] = s[j] => i = j }

\* handle_dir: the loop over dir_elems, for the files among them
RECURSIVE HandleFiles(_, _, _, _)
HandleFiles(map, names, failed, path) ==
  IF names = << >> THEN map
  ELSE HandleFiles(IF Head(names) \in failed THEN map
                   ELSE HandleFile(map, Head(names), path),
                   Tail(names), failed, path)

\* fs::read_dir: the ways opening a directory can end
ReadDir(d) ==
  (IF d \in dirs THEN {"ok"} ELSE {"enoent"}) \cup (IF MayFail THEN {"fault"} ELSE {})

\* a unit that goes on although its directory could not be opened
Opened_Always(out) == TRUE

\* handle_dir: the Ok(dir_elems) arm of the match on fs::read_dir
Opened(out) == out = "ok"

\* A free worker takes a queued task (f free workers take the f oldest tasks, in
\* any order) and runs handle_dir: fs::read_dir(&current_path), and the loop over
\* the files that the directory holds at that moment, in the order the listing
\* returns them.  An entry that cannot be read, or whose type cannot be
\* determined (failed), is skipped.
Start(n) ==
  /\ n \in 1..Len(queue)
  /\ n <= FreeWorkers
  /\ queue[n] \notin DOMAIN units
  /\ LET path == queue[n]
         d == Norm(CurrentPath(path))
     IN IF ClosurePanics(path)
        THEN /\ units' = units
             /\ faults' = faults
             /\ unopened' = unopened
             /\ errs' = errs \cup {"encoding"}
        ELSE \E out \in ReadDir(d) :
               /\ unopened' = IF out = "ok" THEN unopened ELSE unopened \cup {path}
               /\ IF Opened(out)
                  THEN \E names \in Orders(FilesIn(d)) :
                       \E failed \in { F \in SUBSET FilesIn(d) :
                                          Cardinality(F) <= MaxFaults - faults } :
                         /\ units' = (path :> [ NewUnit EXCEPT
                                                  !.seen_f = FilesIn(d),
                                                  !.todo_d = SubdirsIn(d),
                                                  !.fh_files_map =
                                                     HandleFiles(<< >>, names, failed, path) ])
                                       @@ units
                         /\ faults' = faults + Cardinality(failed)
                                         + (IF out = "fault" THEN 1 ELSE 0)
                         /\ errs' = IF \E name \in FilesIn(d) \ failed : ToStr(name) = None
                                    THEN errs \cup {"encoding"} ELSE errs
                  ELSE /\ units' = units
                       /\ faults' = IF out = "fault" THEN faults + 1 ELSE faults
                       /\ errs' = errs
  /\ queue' = Remove(queue, n)
  /\ UNCHANGED << opt, files0, dirs, files, MOVED_COUNT, DELETED_COUNT, RENAMED_COUNT,
                  mainpc, summary, fsops, late, executed >>

\* handle_dir, handle_dir_elem, handle_file: the listing returns a file that
\* came into the directory after it was opened
ListFile(path, name) ==
  /\ path \in DOMAIN units
  /\ units[path].phase = "list"
  /\ name \in FilesIn(Norm(CurrentPath(path))) \ units[path].seen_f
  /\ \E out \in {"ok"} \cup (IF MayFail THEN {"elem_err", "type_err"} ELSE {}) :
       /\ units' = [ units EXCEPT
                       ![path].seen_f = @ \cup {name},
                       ![path].fh_files_map =
                          IF out = "ok" THEN HandleFile(@, name, path) ELSE @ ]
       /\ faults' = IF out = "ok" THEN faults ELSE faults + 1
       /\ errs' = IF out = "ok" /\ ToStr(name) = None THEN errs \cup {"encoding"} ELSE errs
  /\ UNCHANGED << opt, files0, unopened, dirs, files, queue, MOVED_COUNT, DELETED_COUNT, RENAMED_COUNT,
                  mainpc, summary, fsops, late, executed >>

\* handle_dir, handle_dir_elem: the listing returns a directory
ListDir(path, name) ==
  /\ path \in DOMAIN units
  /\ units[path].phase = "list"
  /\ name \in units[path].todo_d
                \cup (SubdirsIn(Norm(CurrentPath(path))) \ units[path].seen_d)
  /\ \E out \in {"ok"} \cup (IF MayFail THEN {"elem_err", "type_err"} ELSE {}) :
       /\ units' = [ units EXCEPT ![path].todo_d = @ \ {name},
                                  ![path].seen_d = @ \cup {name} ]
       /\ queue' = IF out = "ok" /\ FollowsDir(TRUE)
                   THEN PoolExecute(ChildPath(CurrentPath(path), name))
                   ELSE queue
       /\ executed' = IF out = "ok" /\ FollowsDir(TRUE)
                      THEN Counted(executed, ChildPath(CurrentPath(path), name))
                      ELSE executed
       /\ faults' = IF out = "ok" THEN faults ELSE faults + 1
  /\ UNCHANGED << opt, files0, unopened, dirs, files, MOVED_COUNT, DELETED_COUNT, RENAMED_COUNT,
                  mainpc, summary, fsops, late, errs >>

\* a loop that is left while the listing still has entries to return
Exhausted_Early(u) == TRUE

\* handle_dir: the for loop ends when dir_elems has returned every entry
Exhausted(u) == u.todo_d = {}

\* handle_dir: the listing is exhausted and handle_results begins; with an empty
\* fh_files_map it returns at once and the worker is free again
EndListing(path) ==
  /\ path \in DOMAIN units
  /\ units[path].phase = "list"
  /\ Exhausted(units[path])
  /\ units' = IF DOMAIN units[path].fh_files_map = {}
              THEN Without(units, path)
              ELSE [ units EXCEPT ![path].phase = "results",
                                  ![path].seen_f = {} ]
  /\ UNCHANGED << opt, files0, unopened, dirs, files, queue, MOVED_COUNT, DELETED_COUNT, RENAMED_COUNT,
                  mainpc, summary, faults, fsops, late, executed, errs >>

\* handle_results is between two groups
BetweenGroups(u) ==
  \/ u.phase = "results"
  \/ u.phase = "group" /\ u.i = Len(u.file_duplicates)

\* handle_results: the next entry of fh_files_map, its existence check and its sort
BeginGroup(path, key) ==
  /\ path \in DOMAIN units
  /\ BetweenGroups(units[path])
  /\ key \in DOMAIN units[path].fh_files_map
  /\ units' = [ units EXCEPT
                  ![path].phase = "group",
                  ![path].trimmed_name = key,
                  ![path].should_rename = ShouldRename(CurrentPath(path), key),
                  ![path].file_duplicates = SortByKey(units[path].fh_files_map[key]),
                  ![path].fh_files_map = Without(@, key),
                  ![path].i = 0,
                  ![path].existed = PathExists(CurrentPath(path), key),
                  ![path].acts = << >> ]
  /\ UNCHANGED << opt, files0, unopened, dirs, files, queue, MOVED_COUNT, DELETED_COUNT, RENAMED_COUNT,
                  mainpc, summary, faults, fsops, late, executed, errs >>

\* the ways the call for one record can end
Outcomes(kind, src) ==
  IF kind = "none" THEN {"skip"}
  ELSE (IF src \in DOMAIN files THEN {"ok"} ELSE {"enoent"})
         \cup (IF MayFail THEN {"fault"} ELSE {})
         \cup (IF MayFail /\ kind = "mov" THEN {"mkdir_fault"} ELSE {})

\* handle_results: one turn of the loop over file_duplicates, with
\* FHFile::rename, FHFile::mov or FHFile::delete
Act(path) ==
  /\ path \in DOMAIN units
  /\ units[path].phase = "group"
  /\ units[path].i < Len(units[path].file_duplicates)
  /\ LET u == units[path]
         file == u.file_duplicates[u.i + 1]
         kind == ActionFor(u.i, Len(u.file_duplicates), u.should_rename)
         src == SourceOf(file)
         dst == IF kind = "rename" THEN << src[1], u.trimmed_name >>
                ELSE << Norm(TargetDir(file)), file.full_name >>
     IN \E out \in Outcomes(kind, src) :
          LET ok == out = "ok"
          IN /\ dirs' = IF kind = "mov" /\ out # "mkdir_fault"
                        THEN FsCreateDirAll(TargetDir(file)) ELSE dirs
             /\ files' = IF ~ok THEN files
                         ELSE IF kind = "delete" THEN FsRemove(src)
                         ELSE FsRename(src, dst)
             /\ RENAMED_COUNT' = IF kind = "rename" THEN Tally(RENAMED_COUNT, ok)
                                 ELSE RENAMED_COUNT
             /\ MOVED_COUNT' = IF kind = "mov" THEN Tally(MOVED_COUNT, ok)
                               ELSE MOVED_COUNT
             /\ DELETED_COUNT' = IF kind = "delete" THEN Tally(DELETED_COUNT, ok)
                                 ELSE DELETED_COUNT
             /\ fsops' = IF ~ok THEN fsops
                         ELSE IF kind = "rename" THEN [ fsops EXCEPT !.renamed = @ + 1 ]
                         ELSE IF kind = "mov" THEN [ fsops EXCEPT !.moved = @ + 1 ]
                         ELSE [ fsops EXCEPT !.deleted = @ + 1 ]
             /\ units' = IF out = "mkdir_fault" THEN Without(units, path)
                         ELSE [ units EXCEPT
                                  ![path].i = @ + 1,
                                  ![path].acts =
                                     IF kind = "none" THEN @
                                     ELSE Append(@, [ kind |-> kind, file |-> file,
                                                      ok |-> ok ]) ]
             /\ faults' = IF out \in {"fault", "mkdir_fault"} THEN faults + 1 ELSE faults
             /\ late' = (late \/ (kind # "none" /\ mainpc \in {"summary", "done"}))
             /\ errs' = IF out = "mkdir_fault" THEN errs \cup {"create_dir"} ELSE errs
  /\ UNCHANGED << opt, files0, unopened, queue, mainpc, summary, executed >>

\* handle_results and handle_dir return, the worker is free again
FinishUnit(path) ==
  /\ path \in DOMAIN units
  /\ BetweenGroups(units[path])
  /\ DOMAIN units[path].fh_files_map = {}
  /\ units' = Without(units, path)
  /\ UNCHANGED << opt, files0, unopened, dirs, files, queue, MOVED_COUNT, DELETED_COUNT, RENAMED_COUNT,
                  mainpc, summary, faults, fsops, late, executed, errs >>

(* ---------------------------- specification ---------------------------- *)

Next ==
  \/ MainExecute
  \/ \E n \in 1..Len(queue) : Start(n)
  \/ \E path \in DOMAIN units : \E name \in { k[2] : k \in DOMAIN files } :
       ListFile(path, name)
  \/ \E path \in DOMAIN units : \E name \in { p[Len(p)] : p \in dirs \ { << >> } } :
       ListDir(path, name)
  \/ \E path \in DOMAIN units : EndListing(path)
  \/ \E path \in DOMAIN units : \E key \in DOMAIN units[path].fh_files_map :
       BeginGroup(path, key)
  \/ \E path \in DOMAIN units : Act(path)
  \/ \E path \in DOMAIN units : FinishUnit(path)
  \/ Join
  \/ Summary

Spec == Init /\ [][Next]_vars

\* the same program in a working directory with unusual names
SpecNames == InitNames /\ [][Next]_vars

\* a free worker can take a queued task: what lets Start take its step
CanDispatch ==
  \E n \in 1..Len(queue) : n <= FreeWorkers /\ queue[n] \notin DOMAIN units

\* the steps of Next but those of Start
Running ==
  \/ MainExecute
  \/ \E path \in DOMAIN units : EndListing(path)
  \/ \E path \in DOMAIN units : \E name \in { p[Len(p)] : p \in dirs \ { << >> } } :
       ListDir(path, name)
  \/ \E path \in DOMAIN units : \E key \in DOMAIN units[path].fh_files_map :
       BeginGroup(path, key)
  \/ \E path \in DOMAIN units : Act(path)
  \/ \E path \in DOMAIN units : FinishUnit(path)
  \/ \E path \in DOMAIN units : \E name \in { k[2] : k \in DOMAIN files } :
       ListFile(path, name)
  \/ Join
  \/ Summary

\* the main thread and the running workers are threads of the operating system,
\* which lets none of them wait forever while it can take a step; and the pool
\* leaves no task in its queue forever while a worker is free (weak fairness of
\* Start, with CanDispatch for ENABLED << \E n : Start(n) >>_vars)
FairSpec ==
  /\ Spec
  /\ WF_vars(Running)
  /\ \/ []<>(~CanDispatch)
     \/ []<><< \E n \in 1..Len(queue) : Start(n) >>_vars

(* ------------------------------- claims -------------------------------- *)

\* how a record is disposed of under the configuration
DisposeKind == IF opt.purge THEN "delete" ELSE "mov"

\* the units that are resolving a group
Resolving == { path \in DOMAIN units : units[path].phase = "group" }

\* the calls of a kind among the calls made for a group
CallsOf(acts, kinds) == { j \in 1..Len(acts) : acts[j].kind \in kinds }

\* directory d is top or lies below it
IsUnder(d, top) == Len(d) >= Len(top) /\ SubSeq(d, 1, Len(top)) = top

\* the counters as main would load them
Counters ==
  [ moved |-> MOVED_COUNT, deleted |-> DELETED_COUNT, renamed |-> RENAMED_COUNT ]

\* C1: join returns only when no unit is queued or running, the root's or one
\* submitted by another unit; no rename, move, delete or increment happens after
\* it has returned, and the counts loaded for the summary are the final ones.
C1_JoinWaitsForAllUnits ==
  /\ ~late
  /\ mainpc \in {"summary", "done"} => queue = << >> /\ DOMAIN units = {}
  /\ mainpc = "done" => summary = Counters /\ summary = fsops

\* the run is over and a unit submitted by the root unit has renamed a file of
\* the subdirectory
C1_Witness ==
  /\ mainpc = "done"
  /\ opt.incl_subdir
  /\ summary.renamed >= 2
  /\ \E k \in DOMAIN files : k[1] = SubDir /\ files[k] # k

\* C2: a group whose trimmed name did not exist when it was resolved, with
\* keep-names off: the records are handled in ascending order of date, the last
\* one (which no record is newer than) gets the one rename, every earlier one
\* is disposed of; a group of one is renamed.
C2_OneRenameOfNewest ==
  \A path \in Resolving :
    LET u == units[path]
        n == Len(u.file_duplicates)
    IN (~u.existed /\ ~opt.keep_names) =>
         /\ Len(u.acts) = u.i
         /\ \A j \in 1..n : u.file_duplicates[j].date <= u.file_duplicates[n].date
         /\ u.i < n => ~PathExists(CurrentPath(path), u.trimmed_name)
         /\ \A j \in 1..Len(u.acts) :
              /\ u.acts[j].file = u.file_duplicates[j]
              /\ u.acts[j].kind = IF j = n THEN "rename" ELSE DisposeKind
         /\ u.i = n =>
              /\ Cardinality(CallsOf(u.acts, {"rename"})) = 1
              /\ Cardinality(CallsOf(u.acts, {"mov", "delete"})) = n - 1
              /\ u.acts[n].file.date = Max({ u.file_duplicates[j].date : j \in 1..n })
              /\ u.acts[n].ok =>
                   /\ PathExists(CurrentPath(path), u.trimmed_name)
                   /\ files[<< Norm(CurrentPath(path)), u.trimmed_name >>][2]
                        = u.file_duplicates[n].full_name

\* a group of two records of different dates is done: the older one was
\* disposed of, the newer one renamed
C2_Witness ==
  \E path \in Resolving :
    LET u == units[path]
    IN /\ ~u.existed /\ ~opt.keep_names
       /\ u.i = 2 /\ Len(u.file_duplicates) = 2
       /\ u.file_duplicates[1].date < u.file_duplicates[2].date
       /\ u.acts[1].ok /\ u.acts[2].ok

\* C3: a group whose trimmed name exists in the directory when it is resolved:
\* every record is disposed of and none is renamed, whatever the size of the
\* group and whatever keep-names says.
C3_ExistingNameDisposesAll ==
  \A path \in Resolving :
    LET u == units[path]
    IN u.existed =>
         /\ Len(u.acts) = u.i
         /\ \A j \in 1..Len(u.acts) :
              /\ u.acts[j].file = u.file_duplicates[j]
              /\ u.acts[j].kind = DisposeKind
         /\ PathExists(CurrentPath(path), u.trimmed_name)

\* a group of one whose trimmed name exists is done: its record was disposed of
C3_Witness ==
  \E path \in Resolving :
    LET u == units[path]
    IN /\ u.existed
       /\ u.i = 1 /\ Len(u.file_duplicates) = 1
       /\ u.acts[1].ok

\* C4, as claimed: with keep-names and no file of the trimmed name, every record
\* of the group is disposed of, the newest one too.
C4_AsClaimed ==
  \A path \in Resolving :
    LET u == units[path]
    IN (~u.existed /\ opt.keep_names /\ u.i = Len(u.file_duplicates)) =>
         Len(u.acts) = Len(u.file_duplicates)

\* C4, amended: with keep-names and no file of the trimmed name, every record
\* but the newest is disposed of; the newest is neither renamed nor disposed
\* of and stays in the directory under its own name.
C4_KeepNamesKeepsNewest ==
  \A path \in Resolving :
    LET u == units[path]
        n == Len(u.file_duplicates)
    IN (~u.existed /\ opt.keep_names) =>
         /\ Len(u.acts) = IF u.i = n THEN n - 1 ELSE u.i
         /\ \A j \in 1..Len(u.acts) :
              /\ u.acts[j].file = u.file_duplicates[j]
              /\ u.acts[j].kind = DisposeKind
         /\ SourceOf(u.file_duplicates[n]) \in DOMAIN files

\* with keep-names a group of two is done: one record was moved, the other is
\* still there
C4_Witness ==
  \E path \in Resolving :
    LET u == units[path]
    IN /\ ~u.existed /\ opt.keep_names /\ ~opt.purge
       /\ u.i = 2 /\ Len(u.file_duplicates) = 2
       /\ Len(u.acts) = 1 /\ u.acts[1].ok
       /\ MOVED_COUNT = 1

\* C5: with keep-names no unit renames anything and the renamed counter is 0.
C5_KeepNamesNeverRenames ==
  opt.keep_names =>
    /\ RENAMED_COUNT = 0
    /\ fsops.renamed = 0
    /\ \A path \in DOMAIN units : CallsOf(units[path].acts, {"rename"}) = {}
    /\ \A k \in DOMAIN files : files[k][2] = k[2]

\* with keep-names the last record of a group without a file of the trimmed
\* name has had its turn
C5_Witness ==
  /\ opt.keep_names
  /\ \E path \in Resolving :
       /\ ~units[path].existed
       /\ units[path].i = Len(units[path].file_duplicates)

\* C6: with purge every disposal is a delete, nothing is moved and the moved
\* counter is 0; without purge every disposal is a move into the holding
\* directory, nothing is deleted and the deleted counter is 0.
C6_PurgeDeletesElseMoves ==
  /\ opt.purge =>
       /\ MOVED_COUNT = 0 /\ fsops.moved = 0
       /\ \A path \in DOMAIN units : CallsOf(units[path].acts, {"mov"}) = {}
       /\ \A k \in DOMAIN files : files[k][1] = k[1]
  /\ ~opt.purge =>
       /\ DELETED_COUNT = 0 /\ fsops.deleted = 0
       /\ \A path \in DOMAIN units : CallsOf(units[path].acts, {"delete"}) = {}
       /\ \A k \in DOMAIN files : files[k][1] # k[1] => IsUnder(k[1], Norm(TempDir))

\* a record was deleted under purge
C6_Witness ==
  /\ opt.purge
  /\ DELETED_COUNT >= 1
  /\ \E path \in DOMAIN units :
       \E j \in CallsOf(units[path].acts, {"delete"}) : units[path].acts[j].ok

\* C7: at every moment each counter is the number of renames, moves and
\* deletes that the filesystem has carried out: a failed call adds nothing and
\* no increment is lost.
C7_CountersCountSuccesses == Counters = fsops

\* a call of a group failed and a later call of the same group succeeded
C7_Witness ==
  \E path \in DOMAIN units :
    \E j \in 1..Len(units[path].acts) :
      /\ ~units[path].acts[j].ok
      /\ \E l \in (j + 1)..Len(units[path].acts) : units[path].acts[l].ok

C9_GroupsStayInDirectory ==
  \A path \in DOMAIN units :
    LET u == units[path]
    IN /\ \A key \in DOMAIN u.fh_files_map :
            \A j \in 1..Len(u.fh_files_map[key]) :
              /\ u.fh_files_map[key][j].dir_path = path
              /\ TrimmedName(u.fh_files_map[key][j].full_name) = key
       /\ \A j \in 1..Len(u.file_duplicates) :
            /\ u.file_duplicates[j].dir_path = path
            /\ TrimmedName(u.file_duplicates[j].full_name) = u.trimmed_name
            /\ \A l \in 1..Len(u.file_duplicates) :
                 u.file_duplicates[l].full_name = u.file_duplicates[j].full_name => l = j
       /\ \A j \in 1..Len(u.acts) :
            SourceOf(u.acts[j].file)[1] = Norm(CurrentPath(path))

\* the root unit and the unit of ./a/ have each renamed the newest record of
\* their group of the same trimmed name
C9_Witness ==
  /\ ~opt.keep_names
  /\ { None, Some(RootPath \o SubDir) } \subseteq Resolving
  /\ \A path \in { None, Some(RootPath \o SubDir) } :
       LET u == units[path]
       IN /\ u.trimmed_name = Plain("report")
          /\ ~u.existed
          /\ u.i = Len(u.file_duplicates)
          /\ u.acts[u.i].kind = "rename" /\ u.acts[u.i].ok

\* C10: a file whose name carries no marker is in no group, no call is made on
\* it, and it stays at its path with its content.
C10_UnmarkedUntouched ==
  /\ \A k \in DOMAIN files0 : ~FileNameIsMatch(k[2]) => k \in DOMAIN files /\ files[k] = k
  /\ \A path \in DOMAIN units :
       LET u == units[path]
       IN /\ \A key \in DOMAIN u.fh_files_map :
               \A j \in 1..Len(u.fh_files_map[key]) :
                 FileNameIsMatch(u.fh_files_map[key][j].full_name)
          /\ \A j \in 1..Len(u.file_duplicates) :
               FileNameIsMatch(u.file_duplicates[j].full_name)

\* the run is over: the root held report.txt and a stamped revision of it, which
\* was moved or deleted
C10_Witness ==
  /\ mainpc = "done"
  /\ ~opt.incl_subdir
  /\ << << >>, Plain("report") >> \in DOMAIN files0
  /\ summary.moved + summary.deleted >= 1

\* the directories a running unit has touched: the one it lists and resolves,
\* and those it has moved a file into
TouchedBy(path) ==
  { Norm(CurrentPath(path)) }
    \cup { Norm(TargetDir(units[path].acts[j].file)) :
             j \in { j \in CallsOf(units[path].acts, {"mov"}) : units[path].acts[j].ok } }

\* C11, as claimed: no two units that run at the same time touch the same
\* directory: the directory one unit lists, renames in, deletes from or moves a
\* file into is not one that another unit lists or moves a file into.
C11_AsClaimed ==
  \A p, q \in DOMAIN units : p # q => TouchedBy(p) \cap TouchedBy(q) = {}

\* C12, as claimed: the step in which fs::create_dir_all fails relocates no file
\* and leaves the moved counter alone, and after it no rename, move or delete
\* is carried out by any unit and main does not report the summary.
C12_AsClaimed ==
  [][ /\ ("create_dir" \in errs' /\ "create_dir" \notin errs) =>
           (files' = files /\ MOVED_COUNT' = MOVED_COUNT)
      /\ "create_dir" \in errs =>
           /\ files' = files
           /\ fsops' = fsops
           /\ mainpc' = "done" => mainpc = "done" ]_vars

\* the records a unit holds: grouped, being resolved, and acted on
RecordsOf(u) ==
  UNION { { u.fh_files_map[key][j] : j \in 1..Len(u.fh_files_map[key]) } :
            key \in DOMAIN u.fh_files_map }
    \cup { u.file_duplicates[j] : j \in 1..Len(u.file_duplicates) }
    \cup { u.acts[j].file : j \in 1..Len(u.acts) }

\* C13, as claimed: once a name that is not valid text has been met, no
\* filesystem action is performed any more.
C13_AsClaimed ==
  [][ "encoding" \in errs => (files' = files /\ fsops' = fsops) ]_vars

\* a name, or a path, all of whose parts are valid text
ValidText(name) == \A i \in 1..Len(name) : name[i] # InvalidTok

\* C13, amended: a file whose name is not valid text is skipped: it is in no
\* group, no call is made on it and it stays where it is; for a directory whose
\* name is not valid text no unit ever runs and its files stay where they are;
\* the other entries are still processed: a run without failed calls and
\* without keep-names ends with the canonical name of every validly named
\* stamped file of the root present.
C13_InvalidNameIsSkipped ==
  /\ \A k \in DOMAIN files0 :
       (~ValidText(k[2]) \/ ~ValidText(k[1])) => k \in DOMAIN files /\ files[k] = k
  /\ \A path \in DOMAIN units :
       /\ ValidText(CurrentPath(path))
       /\ \A file \in RecordsOf(units[path]) : ValidText(file.full_name)
  /\ (mainpc = "done" /\ faults = 0 /\ ~opt.keep_names) =>
       \A k \in DOMAIN files0 :
         (k[1] = << >> /\ ValidText(k[2]) /\ FileNameIsMatch(k[2]))
           => PathExists(RootPath, TrimmedName(k[2]))

\* the run is over: the root unit met the file of the invalid name, the task of
\* the directory of the invalid name panicked, and files of the root and of
\* ./a/ were renamed all the same
C13_Witness ==
  /\ mainpc = "done"
  /\ "encoding" \in errs
  /\ opt.incl_subdir
  /\ << << >>, BadStamped >> \in DOMAIN files
  /\ Some(RootPath \o BadDir) \in DOMAIN executed
  /\ summary.renamed >= 2

\* the date carried by the last marker of a name
LastMarkerDate(name) == ParseDate(name[Max(MarkerPos(name))])

\* C14, as claimed: the date recorded for a file is the date of the last marker
\* of its name, also when the name carries several markers.
C14_AsClaimed ==
  \A path \in DOMAIN units :
    \A file \in RecordsOf(units[path]) : file.date = LastMarkerDate(file.full_name)

\* path q is the path of a directory directly below the directory of path p
IsChildOf(q, p) ==
  /\ q # None
  /\ Len(q[1]) = Len(CurrentPath(p)) + 1
  /\ SubSeq(q[1], 1, Len(CurrentPath(p))) = CurrentPath(p)

\* the stamped files of the root directory at the start have their canonical
\* name in the root directory
RootResolved ==
  \A k \in DOMAIN files0 :
    (k[1] = << >> /\ ValidText(k[2]) /\ FileNameIsMatch(k[2]))
      => PathExists(RootPath, TrimmedName(k[2]))

\* C15: a unit whose directory could not be opened ends there: it is not
\* running, it has submitted no unit for a directory below its own, no file
\* that was in its directory has been renamed, moved or deleted (and when it
\* is the root unit, nothing at all has happened and the counters are 0); the
\* other units are not affected: when the failed open is the only failure and
\* the root unit ran, the run ends with the root's files resolved.
C15_OpenFailureEndsUnitOnly ==
  \A path \in unopened :
    /\ path \notin DOMAIN units
    /\ \A q \in DOMAIN executed : ~IsChildOf(q, path)
    /\ \A j \in 1..Len(queue) : ~IsChildOf(queue[j], path)
    /\ \A k \in DOMAIN files0 : k[1] = Norm(CurrentPath(path)) => k \in DOMAIN files
    /\ \A k \in DOMAIN files : files[k][1] = Norm(CurrentPath(path)) => files[k] = k
    /\ path = None =>
         /\ files = files0
         /\ Counters = [ moved |-> 0, deleted |-> 0, renamed |-> 0 ]
         /\ DOMAIN executed = { None }
    /\ (path # None /\ mainpc = "done" /\ faults = 1 /\ ~opt.keep_names) => RootResolved

\* the run is over: ./a/ could not be opened, its files are where they were, and
\* the root unit has renamed a file
C15_Witness ==
  /\ mainpc = "done"
  /\ Some(RootPath \o SubDir) \in unopened
  /\ summary.renamed >= 1
  /\ \A k \in DOMAIN files0 : k[1] = SubDir => k \in DOMAIN files

\* C16: every directory gets exactly one unit: pool.execute is called once for
\* a path, never twice; a path other than the root's is the path of a unit
\* that was submitted, plus the name of a directory there; a unit that has left
\* its listing has had every directory returned that was there when it opened
\* its own.  With recursion and no failed call none is skipped: every directory
\* that a listing has returned has its unit, and the directory that is below
\* the root from the start has its unit once the root unit has left its
\* listing.
C16_OneUnitPerDirectory ==
    /\ \A path \in DOMAIN executed :
         /\ executed[path] = 1
         /\ path # None =>
              /\ Norm(path[1]) \in dirs
              /\ \E parent \in DOMAIN executed : IsChildOf(path, parent)
    /\ \A j \in 1..Len(queue) :
         /\ queue[j] \in DOMAIN executed
         /\ queue[j] \notin DOMAIN units
         /\ \A l \in 1..Len(queue) : queue[l] = queue[j] => l = j
    /\ \A path \in DOMAIN units :
         /\ path \in DOMAIN executed
         /\ units[path].phase # "list" => units[path].todo_d = {}
         /\ path = None => SubDir[1] \in units[path].todo_d \cup units[path].seen_d
    /\ (opt.incl_subdir /\ faults = 0) =>
         /\ \A path \in DOMAIN units :
              \A name \in units[path].seen_d :
                ChildPath(CurrentPath(path), name) \in DOMAIN executed
         /\ (mainpc # "execute" /\ (\A j \in 1..Len(queue) : queue[j] # None)
               /\ (None \in DOMAIN units => units[None].phase # "list"))
              => Some(RootPath \o SubDir) \in DOMAIN executed

\* the run is over without a failed call: the root, ./a/, the holding directory
\* that a move created while the root was being listed, and the directory below
\* it have each had their one unit
C16_Witness ==
  /\ opt.incl_subdir /\ faults = 0
  /\ mainpc = "done"
  /\ { None, Some(RootPath \o SubDir), Some(DefaultTempDir),
       Some(DefaultTempDir \o SubDir) } \subseteq DOMAIN executed

\* a unit has nothing left to do: its listing is over and every group is done
NothingLeft(u) ==
  /\ u.todo_d = {}
  /\ DOMAIN u.fh_files_map = {}
  /\ u.i = Len(u.file_duplicates)

\* C17: a unit that is still listing has made no call and every file it has
\* classified is still in its directory; a unit that resolves has had every
\* directory returned that was there when it opened its own (and has submitted
\* their units); its calls are made one record after the other in the order of
\* the sorted group; every step that changes a file or a counter is the step of
\* a unit that resolves a group, and a unit ends in a step in which no call
\* fails (so not by the panic of create_dir_all) only with nothing left to do.
C17_ResolutionAfterListing ==
  /\ [](\A path \in DOMAIN units :
         LET u == units[path]
         IN /\ u.phase = "list" =>
                 /\ u.acts = << >> /\ u.file_duplicates = << >> /\ u.i = 0
                 /\ \A file \in RecordsOf(u) : SourceOf(file) \in DOMAIN files
            /\ u.phase # "list" =>
                 /\ u.todo_d = {}
                 /\ (opt.incl_subdir /\ faults = 0) =>
                      \A name \in u.seen_d :
                        ChildPath(CurrentPath(path), name) \in DOMAIN executed
            /\ Len(u.acts) <= u.i /\ u.i <= Len(u.file_duplicates)
            /\ \A j \in 1..Len(u.acts) : u.acts[j].file = u.file_duplicates[j])
  /\ [][ /\ (files' # files \/ Counters' # Counters) =>
             \E path \in Resolving :
               /\ units[path].i < Len(units[path].file_duplicates)
               /\ \A q \in DOMAIN units \ {path} : q \in DOMAIN units' /\ units'[q] = units[q]
         /\ \A path \in DOMAIN units :
              (path \notin DOMAIN units' /\ faults' = faults) => NothingLeft(units[path]) ]_vars

\* the root unit resolves a group and has made a call; the unit it submitted
\* for ./a/ while it was listing is queued or running
C17_Witness ==
  /\ None \in Resolving
  /\ Len(units[None].acts) >= 1
  /\ \/ Some(RootPath \o SubDir) \in DOMAIN units
     \/ \E j \in 1..Len(queue) : queue[j] = Some(RootPath \o SubDir)

\* a step of the unit of a path, whatever the other units do
UnitStep(path) ==
  \/ EndListing(path)
  \/ \E name \in { p[Len(p)] : p \in dirs \ { << >> } } : ListDir(path, name)
  \/ \E key \in DOMAIN units[path].fh_files_map : BeginGroup(path, key)
  \/ Act(path)
  \/ FinishUnit(path)
  \/ \E name \in { k[2] : k \in DOMAIN files } : ListFile(path, name)

\* C18: under fair scheduling every run ends: the pool becomes idle for good,
\* join returns and main reaches its end, for every configuration and every
\* worker cap; a running unit can always take a step of its own, whatever the
\* units it submitted are doing; and the moves into a holding directory inside
\* the working directory do not keep the pool busy forever.
C18_RunTerminates ==
  /\ <>[](mainpc = "done" /\ PoolIsIdle)
  /\ [](\A path \in DOMAIN units : ENABLED UnitStep(path))

\* a run with one worker and recursion has ended, the pool is idle, the root
\* unit moved a file into the holding directory ./a/ and the unit of ./a/,
\* submitted by the root unit, moved a file one level further down, to ./a/a/
C18_Witness ==
  /\ mainpc = "done"
  /\ PoolIsIdle
  /\ opt.max_threads = 1
  /\ opt.incl_subdir
  /\ Some(RootPath \o SubDir) \in DOMAIN executed
  /\ \E k \in DOMAIN files : k[1] = SubDir /\ files[k][1] = << >>
  /\ \E k \in DOMAIN files : k[1] = SubDir \o SubDir

\* fhcleanup --incl-subdir --target-folder a in a working directory that holds
\* report.txt and one stamped revision of it, in ./ and in ./a/
C19_Input ==
  /\ files0 = InitialFiles({ Plain("report"), Stamped("report", 1) },
                           { Plain("report"), Stamped("report", 1) })
  /\ opt.incl_subdir /\ opt.target_folder = Some(SubDir)
  /\ ~opt.purge /\ ~opt.keep_names

\* what the run on C19_Input leaves with one worker: the root unit moves its
\* revision over the one of ./a/, and the unit of ./a/ moves that one to ./a/a/
C19_Sequential ==
  /\ DOMAIN files = { << << >>, Plain("report") >>, << SubDir, Plain("report") >>,
                      << SubDir \o SubDir, Stamped("report", 1) >> }
  /\ files[<< SubDir \o SubDir, Stamped("report", 1) >>] = << << >>, Stamped("report", 1) >>
  /\ summary = [ moved |-> 2, deleted |-> 0, renamed |-> 0 ]

\* C19, as claimed: a run on a fixed working directory and configuration in
\* which no call fails ends with the same files and the same counts whatever
\* the interleaving of the units and the worker cap; on C19_Input they are
\* those the run with one worker ends with.
C19_AsClaimed ==
  (C19_Input /\ mainpc = "done" /\ PoolIsIdle /\ faults = 0) => C19_Sequential

\* the newest record of each group of a unit that has classified its directory:
\* of the groups that wait in fh_files_map and of the one being resolved
NewestOf(u) ==
  IF u.phase = "list" THEN {}
  ELSE { SortByKey(u.fh_files_map[key])[Len(u.fh_files_map[key])] :
           key \in DOMAIN u.fh_files_map }
         \cup (IF u.file_duplicates = << >> THEN {}
               ELSE { u.file_duplicates[Len(u.file_duplicates)] })

\* C20, as claimed: the directory of a unit keeps the newest revision of each
\* group unless a file with the canonical name is there; with keep-names, where
\* the unit renames nothing, the newest revision of a group that the unit has
\* classified stays under its original name as long as the directory holds no
\* file with the canonical name: no step that is not a step of that unit takes
\* it away or puts another file in its place, already when no call fails.
C20_AsClaimed ==
  [][ \A path \in DOMAIN units :
        (faults = 0 /\ opt.keep_names /\ path \in DOMAIN units' /\ units'[path] = units[path]) =>
          \A file \in NewestOf(units[path]) :
            LET k == SourceOf(file)
                c == << k[1], TrimmedName(file.full_name) >>
            IN (k \in DOMAIN files /\ c \notin DOMAIN files /\ c \notin DOMAIN files') =>
                 (k \in DOMAIN files' /\ files'[k] = files[k]) ]_vars

====
